---- MODULE Spec2Model ----
(***************************************************************************)
(* Hotel booking system of exam_prac.py: a Hotel aggregate (rooms, guests, *)
(* bookings, two id counters, a history of operations) mutated only by     *)
(* Hotel.apply(operation) and Hotel.undo_last().  Operations are stateful  *)
(* objects: execute caches on the instance what undo needs.                *)
(***************************************************************************)
EXTENDS Integers, Sequences, FiniteSets, TLC

\* ------------------------------------------------------------------------
\* Bounds of the model
\* ------------------------------------------------------------------------
\* largest guest id and booking id the counters may hand out
MaxGuestId == 1
MaxBookingId == 2
\* longest history
MaxHistory == 6
\* the same three bounds where instances are applied again and again
MaxReuseGuestId == 2
MaxReuseBookingId == 3
MaxReuseHistory == 7

\* Optional[...] = None
NoId == 0
NoStatus == "None"
\* execute / undo_last returned without raising
NoError == "ok"

\* ------------------------------------------------------------------------
\* Operation instances.  An instance is identified by its class and its
\* constructor arguments; the fields execute writes are kept in self[i].
\* Dates are days of January 2026.
\* ------------------------------------------------------------------------
AddRoomOp(number, capacity, price_per_night) ==
    [cls |-> "AddRoom", number |-> number, capacity |-> capacity,
     price_per_night |-> price_per_night]
RegisterGuestOp(name) == [cls |-> "RegisterGuest", name |-> name]
CreateBookingOp(guest_id, room_number, check_in_date, check_out_date) ==
    [cls |-> "CreateBooking", guest_id |-> guest_id,
     room_number |-> room_number, check_in_date |-> check_in_date,
     check_out_date |-> check_out_date]
CancelBookingOp(booking_id) ==
    [cls |-> "CancelBooking", booking_id |-> booking_id]
CheckInOp(booking_id) == [cls |-> "CheckIn", booking_id |-> booking_id]
CheckOutOp(booking_id) == [cls |-> "CheckOut", booking_id |-> booking_id]

\* the calls of the __main__ driver, in order
UndoLastCall == [cls |-> "undo_last"]
DemoScript ==
    << AddRoomOp(101, 2, 3500),
       AddRoomOp(102, 3, 4500),
       RegisterGuestOp("G"),
       CreateBookingOp(1, 101, 25, 28),
       CheckInOp(1),
       CheckOutOp(1),
       UndoLastCall,
       CancelBookingOp(1),
       UndoLastCall >>
\* value of pc once the calls made so far are not a prefix of the script
OffScript == Len(DemoScript) + 1

\* the instances the callers hold: those the driver constructs, a
\* booking that starts the day the driver's booking ends, and a booking
\* whose dates are the wrong way round
AddRoomOps == { AddRoomOp(101, 2, 3500), AddRoomOp(102, 3, 4500) }
RegisterGuestOps == { RegisterGuestOp("G") }
CreateBookingOps ==
    { CreateBookingOp(1, 101, 25, 28), CreateBookingOp(1, 101, 28, 30),
      CreateBookingOp(1, 101, 28, 25) }
CancelBookingOps == { CancelBookingOp(1) }
CheckInOps == { CheckInOp(1) }
CheckOutOps == { CheckOutOp(1) }
\* the instances of a caller that applies instances again: one room, two
\* guests, one CreateBooking and the cancellations of what it creates
ReuseOps ==
    { AddRoomOp(101, 2, 3500), RegisterGuestOp("A"), RegisterGuestOp("B"),
      CreateBookingOp(1, 101, 25, 28),
      CancelBookingOp(1), CancelBookingOp(2) }

\* the instances of a caller that applies every instance at most once: two
\* rooms, two guests, a booking for each guest and the operations on the
\* first booking
SingleUseOps ==
    { AddRoomOp(101, 2, 3500), AddRoomOp(102, 3, 4500),
      RegisterGuestOp("G"), RegisterGuestOp("A"),
      CreateBookingOp(1, 101, 25, 28), CreateBookingOp(2, 102, 25, 28),
      CancelBookingOp(1), CheckInOp(1), CheckOutOp(1) }

Operation ==
    AddRoomOps \cup RegisterGuestOps \cup CreateBookingOps \cup
    CancelBookingOps \cup CheckInOps \cup CheckOutOps \cup ReuseOps \cup
    SingleUseOps


\* the fields of a freshly constructed instance that execute later writes
InitSelf(i) ==
    CASE i.cls = "AddRoom" -> [added |-> FALSE]
      [] i.cls = "RegisterGuest" -> [guest_id |-> NoId]
      [] i.cls = "CreateBooking" -> [booking_id |-> NoId]
      [] OTHER -> [prev_status |-> NoStatus]

\* ------------------------------------------------------------------------
\* Domain records and dict helpers
\* ------------------------------------------------------------------------
Room(number, capacity, price_per_night) ==
    [number |-> number, capacity |-> capacity,
     price_per_night |-> price_per_night]
Guest(guest_id, name) == [guest_id |-> guest_id, name |-> name]
Booking(booking_id, guest_id, room_number, check_in_date, check_out_date, status) ==
    [booking_id |-> booking_id, guest_id |-> guest_id,
     room_number |-> room_number, check_in_date |-> check_in_date,
     check_out_date |-> check_out_date, status |-> status]

\* d[k] = v
DictSet(d, k, v) ==
    [x \in (DOMAIN d) \cup {k} |-> IF x = k THEN v ELSE d[x]]
\* del d[k]
\* what is left in place of a dict when `del d[k]` raises KeyError: no dict
\* of the program has the key None
KeyError(k) == [x \in {NoId} |-> k]
DictDel(d, k) ==
    IF k \in DOMAIN d THEN [x \in (DOMAIN d) \ {k} |-> d[x]] ELSE KeyError(k)
\* an undo left a KeyError behind
Raised(hotel) ==
    \/ NoId \in DOMAIN hotel.rooms
    \/ NoId \in DOMAIN hotel.guests
    \/ NoId \in DOMAIN hotel.bookings
\* the keys of a dict whose keys are ints inserted in increasing order, in
\* iteration (= insertion) order
RECURSIVE KeysInOrder(_)
KeysInOrder(ks) ==
    IF ks = {} THEN << >>
    ELSE LET m == CHOOSE x \in ks : \A y \in ks : x <= y
         IN  <<m>> \o KeysInOrder(ks \ {m})

\* ------------------------------------------------------------------------
\* Hotel.__init__ : the aggregate as a record
\* ------------------------------------------------------------------------
NewHotel ==
    [rooms |-> << >>, guests |-> << >>, bookings |-> << >>,
     next_guest_id |-> 1, next_booking_id |-> 1, history |-> << >>]

\* result of a method call: the hotel and the instance fields it leaves
\* behind, and the error it raised (NoError when it returned)
Return(h, s) == [hotel |-> h, self |-> s, err |-> NoError]
Raise(h, s, e) == [hotel |-> h, self |-> s, err |-> e]

\* ------------------------------------------------------------------------
\* AddRoom
\* ------------------------------------------------------------------------

\* AddRoom.execute that stores the room whether or not the number is taken
M_AddRoom_execute_Overwrite(hotel, i, s) ==
    Return([hotel EXCEPT !.rooms =
               DictSet(@, i.number,
                       Room(i.number, i.capacity, i.price_per_night))],
           [s EXCEPT !.added = TRUE])

AddRoom_execute(hotel, i, s) ==
    IF i.number \in DOMAIN hotel.rooms
    THEN Raise(hotel, s, "DuplicateRoom")
    ELSE Return([hotel EXCEPT !.rooms =
                    DictSet(@, i.number,
                            Room(i.number, i.capacity, i.price_per_night))],
                [s EXCEPT !.added = TRUE])

AddRoom_undo(hotel, i, s) ==
    IF s.added /\ i.number \in DOMAIN hotel.rooms
    THEN [hotel EXCEPT !.rooms = DictDel(@, i.number)]
    ELSE hotel

\* ------------------------------------------------------------------------
\* RegisterGuest
\* ------------------------------------------------------------------------

\* RegisterGuest.execute that advances the counter before reading it
M_RegisterGuest_execute_IncrementFirst(hotel, i, s) ==
    LET h1 == [hotel EXCEPT !.next_guest_id = @ + 1]
        s1 == [s EXCEPT !.guest_id = h1.next_guest_id]
        h2 == [h1 EXCEPT !.guests =
                  DictSet(@, s1.guest_id, Guest(s1.guest_id, i.name))]
    IN  Return(h2, s1)

RegisterGuest_execute(hotel, i, s) ==
    LET s1 == [s EXCEPT !.guest_id = hotel.next_guest_id]
        h1 == [hotel EXCEPT !.next_guest_id = @ + 1]
        h2 == [h1 EXCEPT !.guests =
                  DictSet(@, s1.guest_id, Guest(s1.guest_id, i.name))]
    IN  Return(h2, s1)

\* RegisterGuest.undo that also gives the id back to the counter
M_RegisterGuest_undo_Rewind(hotel, i, s) ==
    IF s.guest_id # NoId /\ s.guest_id \in DOMAIN hotel.guests
    THEN [hotel EXCEPT !.guests = DictDel(@, s.guest_id),
                       !.next_guest_id = s.guest_id]
    ELSE hotel

RegisterGuest_undo(hotel, i, s) ==
    IF s.guest_id # NoId /\ s.guest_id \in DOMAIN hotel.guests
    THEN [hotel EXCEPT !.guests = DictDel(@, s.guest_id)]
    ELSE hotel

\* ------------------------------------------------------------------------
\* CreateBooking
\* ------------------------------------------------------------------------
\* _dates_overlap on closed ranges
M_dates_overlap_Closed(a_start, a_end, b_start, b_end) ==
    a_start <= b_end /\ b_start <= a_end

dates_overlap(a_start, a_end, b_start, b_end) ==
    a_start < b_end /\ b_start < a_end

\* the loop of _room_is_available over hotel.bookings.values(), ks being
\* the keys still to visit
RECURSIVE room_is_available_from(_, _, _)
room_is_available_from(hotel, i, ks) ==
    IF ks = << >> THEN TRUE
    ELSE LET booking == hotel.bookings[Head(ks)]
         IN  IF booking.room_number # i.room_number
             THEN room_is_available_from(hotel, i, Tail(ks))
             ELSE IF booking.status \in {"cancelled", "checked_out"}
             THEN room_is_available_from(hotel, i, Tail(ks))
             ELSE IF dates_overlap(i.check_in_date, i.check_out_date,
                                   booking.check_in_date,
                                   booking.check_out_date)
             THEN FALSE
             ELSE room_is_available_from(hotel, i, Tail(ks))

room_is_available(hotel, i) ==
    room_is_available_from(hotel, i, KeysInOrder(DOMAIN hotel.bookings))

\* CreateBooking.execute with the id taken before the availability check
M_CreateBooking_execute_IdFirst(hotel, i, s) ==
    IF i.guest_id \notin DOMAIN hotel.guests
    THEN Raise(hotel, s, "UnknownGuest")
    ELSE IF i.room_number \notin DOMAIN hotel.rooms
    THEN Raise(hotel, s, "UnknownRoom")
    ELSE IF i.check_in_date >= i.check_out_date
    THEN Raise(hotel, s, "InvalidDateRange")
    ELSE LET s1 == [s EXCEPT !.booking_id = hotel.next_booking_id]
             h1 == [hotel EXCEPT !.next_booking_id = @ + 1]
             h2 == [h1 EXCEPT !.bookings =
                       DictSet(@, s1.booking_id,
                               Booking(s1.booking_id, i.guest_id,
                                       i.room_number, i.check_in_date,
                                       i.check_out_date, "booked"))]
         IN  IF ~ room_is_available(hotel, i)
             THEN Raise(h1, s1, "RoomUnavailable")
             ELSE Return(h2, s1)


\* CreateBooking.execute that looks the room up before the guest
M_CreateBooking_execute_RoomFirst(hotel, i, s) ==
    IF i.room_number \notin DOMAIN hotel.rooms
    THEN Raise(hotel, s, "UnknownRoom")
    ELSE IF i.guest_id \notin DOMAIN hotel.guests
    THEN Raise(hotel, s, "UnknownGuest")
    ELSE IF i.check_in_date >= i.check_out_date
    THEN Raise(hotel, s, "InvalidDateRange")
    ELSE IF ~ room_is_available(hotel, i)
    THEN Raise(hotel, s, "RoomUnavailable")
    ELSE LET s1 == [s EXCEPT !.booking_id = hotel.next_booking_id]
             h1 == [hotel EXCEPT !.next_booking_id = @ + 1]
             h2 == [h1 EXCEPT !.bookings =
                       DictSet(@, s1.booking_id,
                               Booking(s1.booking_id, i.guest_id,
                                       i.room_number, i.check_in_date,
                                       i.check_out_date, "booked"))]
         IN  Return(h2, s1)


\* CreateBooking.execute without the check of the dates
M_CreateBooking_execute_NoDateCheck(hotel, i, s) ==
    IF i.guest_id \notin DOMAIN hotel.guests
    THEN Raise(hotel, s, "UnknownGuest")
    ELSE IF i.room_number \notin DOMAIN hotel.rooms
    THEN Raise(hotel, s, "UnknownRoom")
    ELSE IF ~ room_is_available(hotel, i)
    THEN Raise(hotel, s, "RoomUnavailable")
    ELSE LET s1 == [s EXCEPT !.booking_id = hotel.next_booking_id]
             h1 == [hotel EXCEPT !.next_booking_id = @ + 1]
             h2 == [h1 EXCEPT !.bookings =
                       DictSet(@, s1.booking_id,
                               Booking(s1.booking_id, i.guest_id,
                                       i.room_number, i.check_in_date,
                                       i.check_out_date, "booked"))]
         IN  Return(h2, s1)


\* CreateBooking.execute that does not look the room up
M_CreateBooking_execute_NoRoomCheck(hotel, i, s) ==
    IF i.guest_id \notin DOMAIN hotel.guests
    THEN Raise(hotel, s, "UnknownGuest")
    ELSE IF i.check_in_date >= i.check_out_date
    THEN Raise(hotel, s, "InvalidDateRange")
    ELSE IF ~ room_is_available(hotel, i)
    THEN Raise(hotel, s, "RoomUnavailable")
    ELSE LET s1 == [s EXCEPT !.booking_id = hotel.next_booking_id]
             h1 == [hotel EXCEPT !.next_booking_id = @ + 1]
             h2 == [h1 EXCEPT !.bookings =
                       DictSet(@, s1.booking_id,
                               Booking(s1.booking_id, i.guest_id,
                                       i.room_number, i.check_in_date,
                                       i.check_out_date, "booked"))]
         IN  Return(h2, s1)

CreateBooking_execute(hotel, i, s) ==
    IF i.guest_id \notin DOMAIN hotel.guests
    THEN Raise(hotel, s, "UnknownGuest")
    ELSE IF i.room_number \notin DOMAIN hotel.rooms
    THEN Raise(hotel, s, "UnknownRoom")
    ELSE IF i.check_in_date >= i.check_out_date
    THEN Raise(hotel, s, "InvalidDateRange")
    ELSE IF ~ room_is_available(hotel, i)
    THEN Raise(hotel, s, "RoomUnavailable")
    ELSE LET s1 == [s EXCEPT !.booking_id = hotel.next_booking_id]
             h1 == [hotel EXCEPT !.next_booking_id = @ + 1]
             h2 == [h1 EXCEPT !.bookings =
                       DictSet(@, s1.booking_id,
                               Booking(s1.booking_id, i.guest_id,
                                       i.room_number, i.check_in_date,
                                       i.check_out_date, "booked"))]
         IN  Return(h2, s1)


\* CreateBooking.undo that deletes the recorded id without looking whether
\* the booking is still there
M_CreateBooking_undo_NoLookup(hotel, i, s) ==
    IF s.booking_id # NoId
    THEN [hotel EXCEPT !.bookings = DictDel(@, s.booking_id)]
    ELSE hotel


\* CreateBooking.undo that hands the id back to the counter
M_CreateBooking_undo_Rewind(hotel, i, s) ==
    IF s.booking_id # NoId /\ s.booking_id \in DOMAIN hotel.bookings
    THEN [hotel EXCEPT !.bookings = DictDel(@, s.booking_id),
                       !.next_booking_id = s.booking_id]
    ELSE hotel

CreateBooking_undo(hotel, i, s) ==
    IF s.booking_id # NoId /\ s.booking_id \in DOMAIN hotel.bookings
    THEN [hotel EXCEPT !.bookings = DictDel(@, s.booking_id)]
    ELSE hotel

\* ------------------------------------------------------------------------
\* CancelBooking, CheckIn, CheckOut
\* ------------------------------------------------------------------------
\* CancelBooking.execute without the check for a guest who has left
M_CancelBooking_execute_NoCheckedOutCheck(hotel, i, s) ==
    IF i.booking_id \notin DOMAIN hotel.bookings
    THEN Raise(hotel, s, "UnknownBooking")
    ELSE IF hotel.bookings[i.booking_id].status = "cancelled"
    THEN Raise(hotel, s, "AlreadyCancelled")
    ELSE Return([hotel EXCEPT !.bookings[i.booking_id].status = "cancelled"],
                [s EXCEPT !.prev_status =
                    hotel.bookings[i.booking_id].status])

\* CancelBooking.execute with one error for both closed statuses
M_CancelBooking_execute_OneError(hotel, i, s) ==
    IF i.booking_id \notin DOMAIN hotel.bookings
    THEN Raise(hotel, s, "UnknownBooking")
    ELSE IF hotel.bookings[i.booking_id].status
                \in {"checked_out", "cancelled"}
    THEN Raise(hotel, s, "AlreadyCancelled")
    ELSE Return([hotel EXCEPT !.bookings[i.booking_id].status = "cancelled"],
                [s EXCEPT !.prev_status =
                    hotel.bookings[i.booking_id].status])

CancelBooking_execute(hotel, i, s) ==
    IF i.booking_id \notin DOMAIN hotel.bookings
    THEN Raise(hotel, s, "UnknownBooking")
    ELSE IF hotel.bookings[i.booking_id].status = "checked_out"
    THEN Raise(hotel, s, "AlreadyCheckedOut")
    ELSE IF hotel.bookings[i.booking_id].status = "cancelled"
    THEN Raise(hotel, s, "AlreadyCancelled")
    ELSE Return([hotel EXCEPT !.bookings[i.booking_id].status = "cancelled"],
                [s EXCEPT !.prev_status =
                    hotel.bookings[i.booking_id].status])

\* CancelBooking.undo that puts the booking back to "booked"
M_CancelBooking_undo_Booked(hotel, i, s) ==
    IF i.booking_id \notin DOMAIN hotel.bookings
    THEN hotel
    ELSE [hotel EXCEPT !.bookings[i.booking_id].status = "booked"]

CancelBooking_undo(hotel, i, s) ==
    IF i.booking_id \notin DOMAIN hotel.bookings
    THEN hotel
    ELSE IF s.prev_status # NoStatus
    THEN [hotel EXCEPT !.bookings[i.booking_id].status = s.prev_status]
    ELSE hotel


\* CheckIn.execute that rejects only a booking that is already checked in
M_CheckIn_execute_NotCheckedIn(hotel, i, s) ==
    IF i.booking_id \notin DOMAIN hotel.bookings
    THEN Raise(hotel, s, "UnknownBooking")
    ELSE IF hotel.bookings[i.booking_id].status = "checked_in"
    THEN Raise(hotel, s, "InvalidTransition")
    ELSE Return([hotel EXCEPT !.bookings[i.booking_id].status = "checked_in"],
                [s EXCEPT !.prev_status =
                    hotel.bookings[i.booking_id].status])

CheckIn_execute(hotel, i, s) ==
    IF i.booking_id \notin DOMAIN hotel.bookings
    THEN Raise(hotel, s, "UnknownBooking")
    ELSE IF hotel.bookings[i.booking_id].status # "booked"
    THEN Raise(hotel, s, "InvalidTransition")
    ELSE Return([hotel EXCEPT !.bookings[i.booking_id].status = "checked_in"],
                [s EXCEPT !.prev_status =
                    hotel.bookings[i.booking_id].status])

CheckIn_undo(hotel, i, s) ==
    IF i.booking_id \notin DOMAIN hotel.bookings
    THEN hotel
    ELSE IF s.prev_status # NoStatus
    THEN [hotel EXCEPT !.bookings[i.booking_id].status = s.prev_status]
    ELSE hotel

CheckOut_execute(hotel, i, s) ==
    IF i.booking_id \notin DOMAIN hotel.bookings
    THEN Raise(hotel, s, "UnknownBooking")
    ELSE IF hotel.bookings[i.booking_id].status # "checked_in"
    THEN Raise(hotel, s, "InvalidTransition")
    ELSE Return([hotel EXCEPT !.bookings[i.booking_id].status = "checked_out"],
                [s EXCEPT !.prev_status =
                    hotel.bookings[i.booking_id].status])

\* CheckOut.undo that puts the booking back to "booked"
M_CheckOut_undo_Booked(hotel, i, s) ==
    IF i.booking_id \notin DOMAIN hotel.bookings
    THEN hotel
    ELSE [hotel EXCEPT !.bookings[i.booking_id].status = "booked"]

CheckOut_undo(hotel, i, s) ==
    IF i.booking_id \notin DOMAIN hotel.bookings
    THEN hotel
    ELSE IF s.prev_status # NoStatus
    THEN [hotel EXCEPT !.bookings[i.booking_id].status = s.prev_status]
    ELSE hotel

\* ------------------------------------------------------------------------
\* Operation.execute / Operation.undo : dynamic dispatch on the class
\* ------------------------------------------------------------------------
execute(hotel, i, s) ==
    CASE i.cls = "AddRoom" -> AddRoom_execute(hotel, i, s)
      [] i.cls = "RegisterGuest" -> RegisterGuest_execute(hotel, i, s)
      [] i.cls = "CreateBooking" -> CreateBooking_execute(hotel, i, s)
      [] i.cls = "CancelBooking" -> CancelBooking_execute(hotel, i, s)
      [] i.cls = "CheckIn" -> CheckIn_execute(hotel, i, s)
      [] i.cls = "CheckOut" -> CheckOut_execute(hotel, i, s)

undo(hotel, i, s) ==
    CASE i.cls = "AddRoom" -> AddRoom_undo(hotel, i, s)
      [] i.cls = "RegisterGuest" -> RegisterGuest_undo(hotel, i, s)
      [] i.cls = "CreateBooking" -> CreateBooking_undo(hotel, i, s)
      [] i.cls = "CancelBooking" -> CancelBooking_undo(hotel, i, s)
      [] i.cls = "CheckIn" -> CheckIn_undo(hotel, i, s)
      [] i.cls = "CheckOut" -> CheckOut_undo(hotel, i, s)

\* ------------------------------------------------------------------------
\* Hotel.apply / Hotel.undo_last
\* ------------------------------------------------------------------------
\* operation.execute(self); self.history.append(operation) : the append is
\* skipped when execute raises
Hotel_apply(hotel, i, s) ==
    LET r == execute(hotel, i, s)
    IN  IF r.err # NoError
        THEN r
        ELSE Return([r.hotel EXCEPT !.history = Append(@, i)], r.self)

\* Hotel.undo_last that returns silently on an empty history
M_Hotel_undo_last_Silent(hotel, selves) ==
    IF hotel.history = << >>
    THEN Return(hotel, selves)
    ELSE LET operation == hotel.history[Len(hotel.history)]
             h1 == [hotel EXCEPT !.history =
                       SubSeq(@, 1, Len(hotel.history) - 1)]
         IN  Return(undo(h1, operation, selves[operation]), selves)

\* Hotel.undo_last that takes the oldest operation (history.pop(0))
M_Hotel_undo_last_Oldest(hotel, selves) ==
    IF hotel.history = << >>
    THEN Raise(hotel, selves, "EmptyHistory")
    ELSE LET operation == hotel.history[1]
             h1 == [hotel EXCEPT !.history = Tail(@)]
         IN  Return(undo(h1, operation, selves[operation]), selves)

\* selves is the state of every operation instance; undo writes none. An
\* exception of undo leaves the operation popped
Hotel_undo_last(hotel, selves) ==
    IF hotel.history = << >>
    THEN Raise(hotel, selves, "EmptyHistory")
    ELSE LET operation == hotel.history[Len(hotel.history)]
             h1 == [hotel EXCEPT !.history =
                       SubSeq(@, 1, Len(hotel.history) - 1)]
             h2 == undo(h1, operation, selves[operation])
         IN  IF Raised(h2)
             THEN Raise(h1, selves, "KeyError")
             ELSE Return(h2, selves)

\* ------------------------------------------------------------------------
\* State
\* ------------------------------------------------------------------------
VARIABLES
    rooms,                \* Hotel.rooms : number -> Room
    guests,               \* Hotel.guests : guest_id -> Guest
    bookings,             \* Hotel.bookings : booking_id -> Booking
    next_guest_id,        \* Hotel._next_guest_id
    next_booking_id,      \* Hotel._next_booking_id
    history,              \* Hotel.history : list of operation instances
    self,                 \* instance -> the fields its execute has written
    result,               \* NoError, or the error the last call raised
    assigned_guest_ids,   \* guest ids handed out so far, in order
    assigned_booking_ids, \* booking ids handed out so far, in order
    pc,                   \* number of driver calls the calls so far match
    used                  \* instances a single-use caller has passed to apply

vars ==
    <<rooms, guests, bookings, next_guest_id, next_booking_id, history,
      self, result, assigned_guest_ids, assigned_booking_ids, pc, used>>

\* the aggregate as the record the methods work on
Hotel ==
    [rooms |-> rooms, guests |-> guests, bookings |-> bookings,
     next_guest_id |-> next_guest_id, next_booking_id |-> next_booking_id,
     history |-> history]

SetHotel(h) ==
    /\ rooms' = h.rooms
    /\ guests' = h.guests
    /\ bookings' = h.bookings
    /\ next_guest_id' = h.next_guest_id
    /\ next_booking_id' = h.next_booking_id
    /\ history' = h.history

Init ==
    /\ rooms = NewHotel.rooms
    /\ guests = NewHotel.guests
    /\ bookings = NewHotel.bookings
    /\ next_guest_id = NewHotel.next_guest_id
    /\ next_booking_id = NewHotel.next_booking_id
    /\ history = NewHotel.history
    /\ self = [i \in Operation |-> InitSelf(i)]
    /\ result = NoError
    /\ assigned_guest_ids = << >>
    /\ assigned_booking_ids = << >>
    /\ pc = 0
    /\ used = {}

\* the driver position after the call c
Advance(c) ==
    pc' = IF pc < Len(DemoScript) /\ DemoScript[pc + 1] = c
          THEN pc + 1 ELSE OffScript

\* hotel.apply(i) for an operation instance i, while the counters stay
\* within max_guest_id and max_booking_id and the history within max_history
Apply(i, max_guest_id, max_booking_id, max_history) ==
    LET r == Hotel_apply(Hotel, i, self[i])
    IN  /\ r.hotel.next_guest_id <= max_guest_id + 1
        /\ r.hotel.next_booking_id <= max_booking_id + 1
        /\ Len(r.hotel.history) <= max_history
        /\ SetHotel(r.hotel)
        /\ self' = [self EXCEPT ![i] = r.self]
        /\ result' = r.err
        /\ assigned_guest_ids' =
              IF i.cls = "RegisterGuest" /\ r.err = NoError
              THEN Append(assigned_guest_ids, r.self.guest_id)
              ELSE assigned_guest_ids
        /\ assigned_booking_ids' =
              IF i.cls = "CreateBooking" /\ r.err = NoError
              THEN Append(assigned_booking_ids, r.self.booking_id)
              ELSE assigned_booking_ids
        /\ Advance(i)

\* hotel.undo_last()
UndoLast ==
    LET r == Hotel_undo_last(Hotel, self)
    IN  /\ SetHotel(r.hotel)
        /\ self' = r.self
        /\ result' = r.err
        /\ UNCHANGED <<assigned_guest_ids, assigned_booking_ids, used>>
        /\ Advance(UndoLastCall)

\* ------------------------------------------------------------------------
\* Spec: a caller that makes any calls with its instances, one action per
\* operation class
\* ------------------------------------------------------------------------
ApplyIn(ops) ==
    \E i \in ops :
        /\ Apply(i, MaxGuestId, MaxBookingId, MaxHistory)
        /\ UNCHANGED used
ApplyAddRoom == ApplyIn(AddRoomOps)
ApplyRegisterGuest == ApplyIn(RegisterGuestOps)
ApplyCreateBooking == ApplyIn(CreateBookingOps)
ApplyCancelBooking == ApplyIn(CancelBookingOps)
ApplyCheckIn == ApplyIn(CheckInOps)
ApplyCheckOut == ApplyIn(CheckOutOps)

Next ==
    \/ ApplyAddRoom
    \/ ApplyRegisterGuest
    \/ ApplyCreateBooking
    \/ ApplyCancelBooking
    \/ ApplyCheckIn
    \/ ApplyCheckOut
    \/ UndoLast

Spec == Init /\ [][Next]_vars

\* ------------------------------------------------------------------------
\* ReuseSpec: a caller that passes the same instances to apply several
\* times, over longer histories
\* ------------------------------------------------------------------------
ReuseApply ==
    \E i \in ReuseOps :
        /\ Apply(i, MaxReuseGuestId, MaxReuseBookingId, MaxReuseHistory)
        /\ UNCHANGED used

ReuseNext == ReuseApply \/ UndoLast

ReuseSpec == Init /\ [][ReuseNext]_vars

\* ------------------------------------------------------------------------
\* SingleUseSpec: a caller that passes every instance to apply at most once
\* ------------------------------------------------------------------------
\* no counter and no history outgrows the number of instances
SingleUseCalls == Cardinality(SingleUseOps)

SingleUseApply ==
    \E i \in SingleUseOps \ used :
        /\ Apply(i, SingleUseCalls, SingleUseCalls, SingleUseCalls)
        /\ used' = used \cup {i}

SingleUseNext == SingleUseApply \/ UndoLast

SingleUseSpec == Init /\ [][SingleUseNext]_vars

\* ========================================================================
\* Claims
\* ========================================================================
\* a booking that occupies its room: neither cancelled nor checked out
Active(b) == b.status \notin {"cancelled", "checked_out"}
\* the half-open ranges [check_in_date, check_out_date) of a and b overlap
RangesOverlap(a, b) ==
    a.check_in_date < b.check_out_date /\ b.check_in_date < a.check_out_date

\* C1: in every state reachable by apply and undo_last calls (an instance
\* may be passed to apply more than once) no two bookings of the same room
\* that are neither cancelled nor checked out have overlapping date ranges.
C1_NoOverlappingActiveBookings ==
    \A x \in DOMAIN bookings : \A y \in DOMAIN bookings :
        (x # y /\ bookings[x].room_number = bookings[y].room_number
              /\ Active(bookings[x]) /\ Active(bookings[y]))
            => ~ RangesOverlap(bookings[x], bookings[y])

\* the errors execute can raise
ValidationErrors ==
    { "DuplicateRoom", "UnknownGuest", "UnknownRoom", "InvalidDateRange",
      "RoomUnavailable", "UnknownBooking", "AlreadyCheckedOut",
      "AlreadyCancelled", "InvalidTransition" }

\* C2: a call of apply whose execute fails with a validation error leaves
\* rooms, guests, bookings, both id counters and the history exactly as
\* they were; the operation is not appended to the history.
C2_FailedApplyChangesNothing ==
    [][result' \in ValidationErrors =>
          /\ rooms' = rooms
          /\ guests' = guests
          /\ bookings' = bookings
          /\ next_guest_id' = next_guest_id
          /\ next_booking_id' = next_booking_id
          /\ history' = history]_vars

\* a CreateBooking was refused for an occupied room, after three
\* successful operations
C2_Witness ==
    /\ result = "RoomUnavailable"
    /\ Len(history) = 3
    /\ DOMAIN bookings = {1}

\* C3: in every reachable state, for every operation whose apply succeeds
\* there, apply followed at once by undo_last gives back the same rooms,
\* guests, bookings (every field, the status included) and history.
C3_ApplyThenUndoRestores ==
    \A i \in Operation :
        LET r == Hotel_apply(Hotel, i, self[i])
        IN  r.err = NoError =>
              LET u == Hotel_undo_last(r.hotel, [self EXCEPT ![i] = r.self])
              IN  /\ u.err = NoError
                  /\ u.hotel.rooms = rooms
                  /\ u.hotel.guests = guests
                  /\ u.hotel.bookings = bookings
                  /\ u.hotel.history = history

\* the driver has applied CheckOut and undone it at once: the booking is
\* checked in again and the history is the five operations before
C3_Witness ==
    /\ pc = 7
    /\ bookings[1].status = "checked_in"
    /\ history = SubSeq(DemoScript, 1, 5)
    /\ self[CheckOutOp(1)].prev_status = "checked_in"

StrictlyIncreasing(seq) ==
    \A j \in 1 .. Len(seq) : \A k \in 1 .. Len(seq) : j < k => seq[j] < seq[k]

\* C4: every guest id handed out by a successful RegisterGuest is greater
\* than every guest id handed out before, and likewise for booking ids and
\* CreateBooking, also when the earlier operations have been undone.
C4_AssignedIdsIncrease ==
    /\ StrictlyIncreasing(assigned_guest_ids)
    /\ StrictlyIncreasing(assigned_booking_ids)

\* guest A was registered with id 1 and undone, then guest B got id 2
C4_Witness ==
    /\ assigned_guest_ids = <<1, 2>>
    /\ self[RegisterGuestOp("A")].guest_id = 1
    /\ history = << RegisterGuestOp("B") >>
    /\ DOMAIN guests = {2}

\* C5: on an empty history undo_last fails with EmptyHistory and changes
\* nothing, for a new Hotel and for one whose history was emptied by undos.
C5_UndoOnEmptyHistoryFails ==
    /\ history = << >> =>
          LET r == Hotel_undo_last(Hotel, self)
          IN  r.err = "EmptyHistory" /\ r.hotel = Hotel /\ r.self = self
    /\ result = "EmptyHistory" => history = << >>

\* undo_last has failed on a history that earlier undos emptied: the
\* counters show a guest and a booking were once created
C5_Witness ==
    /\ result = "EmptyHistory"
    /\ history = << >>
    /\ next_guest_id > 1
    /\ next_booking_id > 1

\* arguments tried for CreateBooking: days of January 2026 and room numbers
ArgDates == { 25, 27, 28, 29, 30 }
ArgRooms == { 101, 102 }
\* the fields of instance i: as left by its last execute if a caller
\* holds it, as constructed otherwise
SelfOf(i) == IF i \in Operation THEN self[i] ELSE InitSelf(i)

\* C6: with guestId and roomNumber present and checkIn < checkOut,
\* CreateBooking succeeds iff no booking of that room that is neither
\* cancelled nor checked out has checkIn < b.checkOut and b.checkIn <
\* checkOut: touching ranges are accepted, cancelled and checked-out
\* bookings and bookings of other rooms never block.
C6_AvailabilityDecision ==
    \A g \in DOMAIN guests : \A r \in ArgRooms \cap DOMAIN rooms :
    \A ci \in ArgDates : \A co \in ArgDates :
        ci < co =>
          LET i == CreateBookingOp(g, r, ci, co)
              blocked ==
                \E b \in DOMAIN bookings :
                    /\ bookings[b].room_number = r
                    /\ bookings[b].status \notin {"cancelled", "checked_out"}
                    /\ ci < bookings[b].check_out_date
                    /\ bookings[b].check_in_date < co
          IN  (Hotel_apply(Hotel, i, SelfOf(i)).err = NoError) <=> ~ blocked

\* a CreateBooking has just been accepted whose range starts the day an
\* active booking of the same room ends
C6_Witness ==
    /\ result = NoError
    /\ history # << >>
    /\ history[Len(history)] = CreateBookingOp(1, 101, 28, 30)
    /\ \E x \in DOMAIN bookings : \E y \in DOMAIN bookings :
          /\ x # y
          /\ bookings[x].room_number = bookings[y].room_number
          /\ Active(bookings[x]) /\ Active(bookings[y])
          /\ bookings[x].check_out_date = bookings[y].check_in_date

\* status changes <<from, to, operation class>> of the state machine
StateMachine ==
    { <<"booked", "checked_in", "CheckIn">>,
      <<"checked_in", "checked_out", "CheckOut">>,
      <<"booked", "cancelled", "CancelBooking">> }
\* in a step that is a successful apply (the history grows by the applied
\* operation), every status change of a booking is one of allowed
ForwardChangesIn(allowed) ==
    Len(history') = Len(history) + 1 =>
        \A b \in (DOMAIN bookings) \cap (DOMAIN bookings') :
            bookings'[b].status # bookings[b].status =>
                <<bookings[b].status, bookings'[b].status,
                  history'[Len(history')].cls>> \in allowed

\* C7 as claimed: a successful apply changes a booking's status only as
\* booked -> checked_in (CheckIn), checked_in -> checked_out (CheckOut) or
\* booked -> cancelled (CancelBooking).
C7_OnlyStateMachineChanges == [][ForwardChangesIn(StateMachine)]_vars

\* C7 as amended: a successful apply changes a booking's status only as
\* booked -> checked_in (CheckIn), checked_in -> checked_out (CheckOut),
\* booked -> cancelled (CancelBooking) or checked_in -> cancelled
\* (CancelBooking).
C7_OnlyStateMachineOrCancelCheckedIn ==
    [][ForwardChangesIn(StateMachine \cup
          { <<"checked_in", "cancelled", "CancelBooking">> })]_vars

\* a checked-in booking has just been cancelled
C7_Witness ==
    /\ result = NoError
    /\ history # << >>
    /\ history[Len(history)] = CancelBookingOp(1)
    /\ bookings[1].status = "cancelled"
    /\ self[CancelBookingOp(1)].prev_status = "checked_in"

\* booking ids tried for the status operations; the last is never assigned
ArgBookingIds == 1 .. (MaxBookingId + 1)

\* C8: CheckIn on a status other than booked and CheckOut on a status
\* other than checked_in fail with InvalidTransition; CancelBooking fails
\* with AlreadyCheckedOut on checked_out and AlreadyCancelled on cancelled;
\* all three fail with UnknownBooking when the booking id is absent.
C8_StatusRejections ==
    \A b \in ArgBookingIds :
        LET check_in == Hotel_apply(Hotel, CheckInOp(b), SelfOf(CheckInOp(b))).err
            check_out == Hotel_apply(Hotel, CheckOutOp(b), SelfOf(CheckOutOp(b))).err
            cancel == Hotel_apply(Hotel, CancelBookingOp(b), SelfOf(CancelBookingOp(b))).err
        IN  IF b \notin DOMAIN bookings
            THEN /\ check_in = "UnknownBooking"
                 /\ check_out = "UnknownBooking"
                 /\ cancel = "UnknownBooking"
            ELSE /\ bookings[b].status # "booked"
                    => check_in = "InvalidTransition"
                 /\ bookings[b].status # "checked_in"
                    => check_out = "InvalidTransition"
                 /\ bookings[b].status = "checked_out"
                    => cancel = "AlreadyCheckedOut"
                 /\ bookings[b].status = "cancelled"
                    => cancel = "AlreadyCancelled"

\* CancelBooking has just been refused on a booking whose guest has left
C8_Witness ==
    /\ result = "AlreadyCheckedOut"
    /\ bookings[1].status = "checked_out"

\* C9: the driver's calls: the six operations succeed with guest id 1 and
\* booking id 1 and leave the status checked_out; undo_last restores
\* checked_in; CancelBooking(1) succeeds and sets cancelled; the second
\* undo_last restores checked_in and the history is the first five
\* operations.
C9_DriverScenario ==
    /\ pc \in 1 .. Len(DemoScript) => result = NoError
    /\ pc = 3 => self[DemoScript[3]].guest_id = 1
    /\ pc = 4 => /\ self[DemoScript[4]].booking_id = 1
                 /\ bookings[1].status = "booked"
    /\ pc = 5 => bookings[1].status = "checked_in"
    /\ pc = 6 => /\ bookings[1].status = "checked_out"
                 /\ history = SubSeq(DemoScript, 1, 6)
    /\ pc = 7 => bookings[1].status = "checked_in"
    /\ pc = 8 => bookings[1].status = "cancelled"
    /\ pc = 9 => /\ bookings[1].status = "checked_in"
                 /\ history = SubSeq(DemoScript, 1, 5)

\* the driver has made its last call
C9_Witness ==
    /\ pc = Len(DemoScript)
    /\ bookings[1].status = "checked_in"
    /\ self[CancelBookingOp(1)].prev_status = "checked_in"

\* the hotel after n more calls of undo_last
RECURSIVE UndoTimes(_, _, _)
UndoTimes(h, selves, n) ==
    IF n = 0 THEN h
    ELSE UndoTimes(Hotel_undo_last(h, selves).hotel, selves, n - 1)

\* from the present state, the k-th of Len(history) calls of undo_last
\* succeeds and leaves the first Len(history) - k operations, and the call
\* after the last of them fails
UndoneInReverseOrder ==
    /\ \A k \in 1 .. Len(history) :
          LET r == Hotel_undo_last(UndoTimes(Hotel, self, k - 1), self)
          IN  /\ r.err = NoError
              /\ r.hotel.history = SubSeq(history, 1, Len(history) - k)
    /\ Hotel_undo_last(UndoTimes(Hotel, self, Len(history)), self).err
          = "EmptyHistory"

\* a step appends one operation to the history (a successful apply),
\* removes the last one and runs the undo of that operation (a successful
\* undo_last), or leaves the history as it is (a failed call)
LifoStep ==
    /\ result' = NoError <=> Len(history') # Len(history)
    /\ result' # NoError => history' = history
    /\ Len(history') > Len(history) =>
          \E i \in Operation : history' = Append(history, i)
    /\ Len(history') < Len(history) =>
          LET operation == history[Len(history)]
              h1 == [Hotel EXCEPT !.history =
                        SubSeq(history, 1, Len(history) - 1)]
              u == undo(h1, operation, self[operation])
          IN  /\ history' = h1.history
              /\ rooms' = u.rooms
              /\ guests' = u.guests
              /\ bookings' = u.bookings
              /\ next_guest_id' = next_guest_id
              /\ next_booking_id' = next_booking_id
              /\ self' = self

\* C10: the history is the LIFO record of the successful operations not
\* yet undone: a successful apply appends exactly one entry at the end, a
\* failed call leaves it alone, undo_last on a non-empty history removes
\* exactly the last entry and runs the undo of that operation only; so
\* undoing k applied operations takes them in reverse order and one more
\* undo_last fails.
C10_HistoryIsLifo == [](UndoneInReverseOrder) /\ [][LifoStep]_vars

\* a room, a guest and a booking were added, then the booking and the
\* guest were undone, newest first: the room's AddRoom is what is left
C10_Witness ==
    /\ result = NoError
    /\ history = << AddRoomOp(101, 2, 3500) >>
    /\ DOMAIN rooms = {101}
    /\ guests = << >> /\ bookings = << >>
    /\ next_guest_id = 2 /\ next_booking_id = 2

\* ------------------------------------------------------------------------
\* C11
\* ------------------------------------------------------------------------
TerminalStatuses == {"checked_out", "cancelled"}

\* the operation whose execute writes the given terminal status
PutsInto(status) ==
    IF status = "checked_out" THEN "CheckOut" ELSE "CancelBooking"

\* on a booking that is checked_out or cancelled, apply of CheckIn, CheckOut
\* and CancelBooking fails and returns the hotel as it was
TerminalRejected ==
    \A b \in DOMAIN bookings :
        bookings[b].status \in TerminalStatuses =>
            \A i \in {CheckInOp(b), CheckOutOp(b), CancelBookingOp(b)} :
                LET r == Hotel_apply(Hotel, i, SelfOf(i))
                IN  r.err # NoError /\ r.hotel = Hotel

\* a step that moves a booking out of checked_out or cancelled pops from the
\* history the CheckOut or CancelBooking of that booking and writes the
\* status that instance recorded
TerminalLeftOnlyByUndo ==
    \A b \in DOMAIN bookings :
        ( /\ bookings[b].status \in TerminalStatuses
          /\ b \in DOMAIN bookings'
          /\ bookings'[b].status # bookings[b].status )
        => /\ history # << >>
           /\ history' = SubSeq(history, 1, Len(history) - 1)
           /\ LET operation == history[Len(history)]
              IN  /\ operation.cls = PutsInto(bookings[b].status)
                  /\ operation.booking_id = b
                  /\ bookings'[b].status = self[operation].prev_status

\* C11: checked_out and cancelled are terminal: CheckIn, CheckOut and
\* CancelBooking applied to such a booking fail and leave it unchanged, and
\* the booking leaves that status only by undo_last of the operation that
\* put it there, which restores the one status that operation recorded.
C11_TerminalStatuses ==
    [](TerminalRejected) /\ [][TerminalLeftOnlyByUndo]_vars

\* a CheckOut has just been undone: the booking is checked_in again, the
\* status the CheckOut instance recorded, with the CheckIn on top
C11_Witness ==
    /\ 1 \in DOMAIN bookings
    /\ bookings[1].status = "checked_in"
    /\ self[CheckOutOp(1)].prev_status = "checked_in"
    /\ history # << >>
    /\ history[Len(history)] = CheckInOp(1)
    /\ result = NoError

\* ------------------------------------------------------------------------
\* C12
\* ------------------------------------------------------------------------
ArgGuestIds == 1 .. (MaxGuestId + 1)
OrderDates == { 25, 28 }

\* C12: CreateBooking validates in a fixed order: UnknownGuest when the
\* guest is absent, whatever the room and the dates; otherwise UnknownRoom
\* when the room is absent, whatever the dates; otherwise InvalidDateRange
\* when checkIn >= checkOut, equal dates included; RoomUnavailable only
\* when all three checks pass.
C12_ValidationOrder ==
    \A g \in ArgGuestIds : \A r \in ArgRooms :
    \A ci \in OrderDates : \A co \in OrderDates :
        LET i == CreateBookingOp(g, r, ci, co)
            err == Hotel_apply(Hotel, i, SelfOf(i)).err
        IN  IF g \notin DOMAIN guests THEN err = "UnknownGuest"
            ELSE IF r \notin DOMAIN rooms THEN err = "UnknownRoom"
            ELSE IF ci >= co THEN err = "InvalidDateRange"
            ELSE err \in {"RoomUnavailable", NoError}

\* a CreateBooking has just failed with UnknownGuest in a hotel that has
\* neither the guest nor the room
C12_Witness ==
    /\ result = "UnknownGuest"
    /\ guests = << >>
    /\ rooms = << >>

\* ------------------------------------------------------------------------
\* C13
\* ------------------------------------------------------------------------
UndoIds == NoId .. (MaxReuseBookingId + 1)

\* the values the fields of instance i can hold when its undo runs
UndoSelves(i) ==
    CASE i.cls = "AddRoom" -> [added : BOOLEAN]
      [] i.cls = "RegisterGuest" -> [guest_id : UndoIds]
      [] i.cls = "CreateBooking" -> [booking_id : UndoIds]
      [] OTHER -> [prev_status : {NoStatus, "booked", "checked_in"}]

\* the record the undo of instance i acts on is not in the hotel
TargetMissing(hotel, i, s) ==
    CASE i.cls = "AddRoom" -> i.number \notin DOMAIN hotel.rooms
      [] i.cls = "RegisterGuest" -> s.guest_id \notin DOMAIN hotel.guests
      [] i.cls = "CreateBooking" -> s.booking_id \notin DOMAIN hotel.bookings
      [] OTHER -> i.booking_id \notin DOMAIN hotel.bookings

\* C13: the undo of each of the six operations, run when its target record
\* is missing, does not fail and leaves rooms, guests, bookings and both
\* counters unchanged; hence undo_last on a non-empty history never fails.
C13_UndoMissingTargetIsNoOp ==
    /\ \A i \in Operation : \A s \in UndoSelves(i) :
          TargetMissing(Hotel, i, s) => undo(Hotel, i, s) = Hotel
    /\ history # << >> => Hotel_undo_last(Hotel, self).err = NoError

\* undo_last has just run the undo of a CreateBooking whose recorded id is
\* that of a booking already removed: the instance was applied twice, its
\* second booking went with the first undo, its first booking is still there
C13_Witness ==
    /\ result = NoError
    /\ self[CreateBookingOp(1, 101, 25, 28)].booking_id = 2
    /\ DOMAIN bookings = {1}
    /\ \A k \in 1 .. Len(history) : history[k].cls # "CreateBooking"
    /\ Len(history) = 2

\* ------------------------------------------------------------------------
\* C14
\* ------------------------------------------------------------------------
\* the step is a successful apply of an operation of class cls
SuccessfulApplyOf(cls) ==
    /\ Len(history') = Len(history) + 1
    /\ history'[Len(history')].cls = cls

\* how the two counters move in one step
CountersStep ==
    /\ next_guest_id' =
          IF SuccessfulApplyOf("RegisterGuest")
          THEN next_guest_id + 1 ELSE next_guest_id
    /\ next_booking_id' =
          IF SuccessfulApplyOf("CreateBooking")
          THEN next_booking_id + 1 ELSE next_booking_id

\* C14: both id counters start at 1; the guest counter grows by exactly 1
\* on a successful RegisterGuest, the booking counter by exactly 1 on a
\* successful CreateBooking, and every other step, each undo and each
\* failed CreateBooking included, leaves both unchanged: they never
\* decrease.
C14_CountersNeverDecrease ==
    (next_guest_id = 1 /\ next_booking_id = 1) /\ [][CountersStep]_vars

\* a guest and a booking were created and undone: the hotel is empty again
\* and both counters have kept their increment
C14_Witness ==
    /\ next_guest_id = 2
    /\ next_booking_id = 2
    /\ guests = << >>
    /\ bookings = << >>
    /\ history = << >>

\* ------------------------------------------------------------------------
\* C15
\* ------------------------------------------------------------------------
\* C15: after a successful apply of a RegisterGuest (CreateBooking) the id
\* kept on the instance is the value the guest (booking) counter had
\* before the call, and the new record is stored under that key with its
\* id field equal to the key; the new booking has status booked and the
\* guestId, roomNumber and dates the instance was constructed with.
C15_AssignedIdRecorded ==
    \A i \in Operation :
        LET r == Hotel_apply(Hotel, i, SelfOf(i))
        IN  r.err = NoError =>
              CASE i.cls = "RegisterGuest" ->
                     /\ r.self.guest_id = next_guest_id
                     /\ next_guest_id \in DOMAIN r.hotel.guests
                     /\ r.hotel.guests[next_guest_id] =
                           [guest_id |-> next_guest_id, name |-> i.name]
                [] i.cls = "CreateBooking" ->
                     /\ r.self.booking_id = next_booking_id
                     /\ next_booking_id \in DOMAIN r.hotel.bookings
                     /\ r.hotel.bookings[next_booking_id] =
                           [booking_id |-> next_booking_id,
                            guest_id |-> i.guest_id,
                            room_number |-> i.room_number,
                            check_in_date |-> i.check_in_date,
                            check_out_date |-> i.check_out_date,
                            status |-> "booked"]
                [] OTHER -> TRUE

\* a CreateBooking instance has just been applied for the second time: it
\* holds the id 2 and booking 2 is booked with the instance's arguments
C15_Witness ==
    /\ result = NoError
    /\ history # << >>
    /\ history[Len(history)] = CreateBookingOp(1, 101, 25, 28)
    /\ self[CreateBookingOp(1, 101, 25, 28)].booking_id = 2
    /\ next_booking_id = 3
    /\ 2 \in DOMAIN bookings
    /\ bookings[2].status = "booked"
    /\ Len(SelectSeq(history, LAMBDA o : o = CreateBookingOp(1, 101, 25, 28))) = 2

\* ------------------------------------------------------------------------
\* C16
\* ------------------------------------------------------------------------
Statuses == {"booked", "checked_in", "checked_out", "cancelled"}

\* C16: every booking in bookings has checkInDate < checkOutDate, a status
\* among booked, checked_in, checked_out and cancelled, a bookingId equal
\* to the key it is stored under, and that id is below the next-booking-id
\* counter.
C16_WellFormedBookings ==
    \A b \in DOMAIN bookings :
        /\ bookings[b].check_in_date < bookings[b].check_out_date
        /\ bookings[b].status \in Statuses
        /\ bookings[b].booking_id = b
        /\ b < next_booking_id

\* two bookings are stored, the first one checked out, after a CreateBooking
\* with reversed dates was turned away
C16_Witness ==
    /\ DOMAIN bookings = {1, 2}
    /\ bookings[1].status = "checked_out"
    /\ result = "InvalidDateRange"

\* ------------------------------------------------------------------------
\* C17
\* ------------------------------------------------------------------------
\* C17: when every operation instance is passed to apply at most once,
\* every booking's guestId is a key of guests and its roomNumber a key of
\* rooms, in every reachable state.
C17_ReferentialIntegrity ==
    \A b \in DOMAIN bookings :
        /\ bookings[b].guest_id \in DOMAIN guests
        /\ bookings[b].room_number \in DOMAIN rooms

\* a single-use caller has made calls that failed and calls that were
\* undone, and holds two bookings of two guests in two rooms
C17_Witness ==
    /\ DOMAIN bookings = {1, 2}
    /\ bookings[1].guest_id # bookings[2].guest_id
    /\ bookings[1].room_number # bookings[2].room_number
    /\ Cardinality(used) > Len(history)
    /\ CheckInOp(1) \in used
    /\ bookings[1].status = "booked"

\* ------------------------------------------------------------------------
\* C18
\* ------------------------------------------------------------------------
\* C18: a full rollback leaves no orphaned records: for any sequence of
\* calls, applying an instance again included, whenever history is empty
\* rooms, guests and bookings are all empty.
C18_EmptyHistoryMeansEmptyHotel ==
    history = << >> =>
        /\ rooms = << >>
        /\ guests = << >>
        /\ bookings = << >>

\* ------------------------------------------------------------------------
\* C19
\* ------------------------------------------------------------------------
StatusOps ==
    UNION { {CheckInOp(b), CheckOutOp(b), CancelBookingOp(b)} :
            b \in ArgBookingIds }
ArgAddRoomOps ==
    { AddRoomOp(n, 2, 3500) : n \in ArgRooms } \cup
    { AddRoomOp(n, 3, 4500) : n \in ArgRooms }

\* hotel h differs from the current one at most in the status of booking b
OnlyStatusOf(h, b) ==
    IF b \in DOMAIN bookings
    THEN /\ b \in DOMAIN h.bookings
         /\ h = [Hotel EXCEPT !.bookings[b].status = h.bookings[b].status]
    ELSE h = Hotel

\* hotel h differs from the current one at most in having or not having
\* the room number, every other room being the same record
OnlyRoom(h, number) ==
    /\ h = [Hotel EXCEPT !.rooms = h.rooms]
    /\ DOMAIN h.rooms \ {number} = DOMAIN rooms \ {number}
    /\ \A n \in DOMAIN rooms \cap DOMAIN h.rooms : h.rooms[n] = rooms[n]

\* C19: a successful CheckIn, CheckOut or CancelBooking on booking b, and
\* the undo of each, change only the status of b: rooms, guests, the other
\* bookings, the other fields of b and both counters stay as they were.
\* AddRoom and its undo change only the rooms entry of its number and never
\* alter a Room record that is already there.
C19_Frames ==
    /\ \A i \in StatusOps :
          /\ OnlyStatusOf(execute(Hotel, i, SelfOf(i)).hotel, i.booking_id)
          /\ \A s \in UndoSelves(i) :
                OnlyStatusOf(undo(Hotel, i, s), i.booking_id)
    /\ \A i \in ArgAddRoomOps :
          /\ OnlyRoom(execute(Hotel, i, SelfOf(i)).hotel, i.number)
          /\ \A s \in UndoSelves(i) : OnlyRoom(undo(Hotel, i, s), i.number)

\* booking 1 has just been cancelled next to booking 2, which is booked
C19_Witness ==
    /\ result = NoError
    /\ history # << >>
    /\ history[Len(history)] = CancelBookingOp(1)
    /\ DOMAIN bookings = {1, 2}
    /\ bookings[1].status = "cancelled"
    /\ bookings[2].status = "booked"

====
